---------------------------- MODULE Spec2Model ----------------------------
(***************************************************************************)
(* The Ledger session interpreter of bhwi (bhwi/src/ledger/mod.rs): the    *)
(* tagged-union session state New / Running / Finished and its three       *)
(* lifecycle operations start, exchange and end, driven by an arbitrary    *)
(* caller with arbitrary requests and device responses.                    *)
(*                                                                         *)
(* Option<T> is modelled as a sequence of length 0 (None) or 1 (Some).     *)
(* Vec<u8> is a sequence of integers in 0..255.                            *)
(***************************************************************************)
EXTENDS Integers, Sequences, FiniteSets, TLC

VARIABLES
    state,       \* LedgerInterpreter.state
    ret,         \* what the most recent call returned (and which call it was)
    prevOp,      \* history: the call made before the most recent one
    consumed,    \* end(self) has taken the interpreter by value
    startedCmd,  \* history: Some(command of the last successful start)
    decodedFor,  \* history: Some(command whose response was decoded since that start)
    overridden,  \* history: a start succeeded while another command was Running
    rounds,      \* the driver loop: number of exchange calls it has made
    device,      \* WebHidDevice.device: None before get_webhid_device returns one
    on_close_cb, \* WebHidDevice.on_close_cb: the kind of JsValue it holds
    msg_queue,   \* the unbounded channel behind WebHidDevice.msg_queue
    senders,     \* number of live Sender handles of that channel
    readPending, \* a read() future is waiting on msg_queue.next()
    closeTasks,  \* tasks spawned by close() that still await close_future
    received,    \* history: the input reports the device sent since it was opened
    delivered,   \* history: what the read() calls returned, in order
    closeCalls,  \* history: number of close() calls
    disconnects, \* history: number of disconnect events
    lastDisconnect, \* history: the device of the last disconnect event
    cbCalls      \* history: number of invocations of the on-close callback

\* the interpreter and the histories of its calls
ledgerVars == <<state, ret, prevOp, consumed, startedCmd, decodedFor, overridden>>

\* the WebHID transport and its histories
hidVars == <<device, on_close_cb, msg_queue, senders, readPending, closeTasks,
             received, delivered, closeCalls, disconnects, lastDisconnect, cbCalls>>

vars == <<ledgerVars, rounds, hidVars>>

---------------------------------------------------------------------------
(* Bounds of the model *)

\* longest response payload the device sends (the status word comes on top)
MaxPayloadLen == 5

\* number of characters of a textual extended public key (111 on the wire)
XpubTextLen == 3

\* exchange calls the driver loop is followed for
MaxExchanges == 3

\* input reports the device sends
MaxReports == 2

\* close() calls the page makes
MaxCloses == 1

\* disconnect events the browser fires
MaxDisconnects == 1

---------------------------------------------------------------------------
(* Option and byte helpers *)

None == <<>>

Some(x) == <<x>>

IsSome(o) == Len(o) = 1

Unwrap(o) == o[1]

\* payload bytes the modelled device uses: 0xAA (not ASCII) and 'x' (0x78)
PayloadBytes == {170, 120}

RECURSIVE SeqsUpTo(_, _)
SeqsUpTo(S, n) ==
    IF n = 0 THEN {<<>>}
    ELSE LET shorter == SeqsUpTo(S, n - 1)
         IN  shorter \cup {Append(s, b) : s \in {t \in shorter : Len(t) = n - 1}, b \in S}

Payloads == SeqsUpTo(PayloadBytes, MaxPayloadLen)

---------------------------------------------------------------------------
(* apdu: status words and the response frame codec *)

SW_OK == 36864                      \* 0x9000

SW_InterruptedExecution == 57344    \* 0xE000

SW_ClaNotSupported == 28160         \* 0x6E00

SW_ConditionsNotSatisfied == 27013  \* 0x6985, not in the closed set used here

StatusWord_try_from(code) ==
    CASE code = SW_OK -> [variant |-> "OK", code |-> code]
      [] code = SW_InterruptedExecution -> [variant |-> "InterruptedExecution", code |-> code]
      [] code = SW_ClaNotSupported -> [variant |-> "ClaNotSupported", code |-> code]
      [] OTHER -> [variant |-> "Unknown", code |-> code]

StatusWord_OK == StatusWord_try_from(SW_OK)

StatusWord_InterruptedExecution == StatusWord_try_from(SW_InterruptedExecution)

StatusWord_ClaNotSupported == StatusWord_try_from(SW_ClaNotSupported)

\* ApduResponse::try_from(Vec<u8>): payload | SW1 | SW2, big-endian status word
ApduResponse_try_from(data) ==
    IF Len(data) < 2
    THEN [ok |-> FALSE, data |-> <<>>, status_word |-> StatusWord_try_from(0)]
    ELSE [ok |-> TRUE,
          data |-> SubSeq(data, 1, Len(data) - 2),
          status_word |-> StatusWord_try_from(data[Len(data) - 1] * 256 + data[Len(data)])]

\* the wire bytes of a response with payload p and status word code sw
ResponseBytes(p, sw) == p \o <<sw \div 256, sw % 256>>

StatusWords == {SW_OK, SW_InterruptedExecution, SW_ClaNotSupported,
                SW_ConditionsNotSatisfied}

\* what the transport can hand to exchange: well-formed responses and
\* buffers shorter than the status word
Responses ==
    {ResponseBytes(p, sw) : p \in Payloads, sw \in StatusWords}
        \cup {<<>>} \cup {<<b>> : b \in PayloadBytes \cup {144, 224}}

---------------------------------------------------------------------------
(* Domain commands, responses and errors *)

Networks == {"Bitcoin", "Testnet"}

Paths == {<<>>, <<44>>}

OpenApp(network) ==
    [kind |-> "OpenApp", network |-> network, path |-> <<>>, display |-> FALSE]

GetMasterFingerprint ==
    [kind |-> "GetMasterFingerprint", network |-> "-", path |-> <<>>, display |-> FALSE]

GetXpub(path, display) ==
    [kind |-> "GetXpub", network |-> "-", path |-> path, display |-> display]

LedgerCommand ==
    {OpenApp(n) : n \in Networks} \cup {GetMasterFingerprint}
        \cup {GetXpub(p, d) : p \in Paths, d \in BOOLEAN}

TaskDone == [variant |-> "TaskDone", value |-> <<>>]

MasterFingerprint(fg) == [variant |-> "MasterFingerprint", value |-> fg]

Xpub(key) == [variant |-> "Xpub", value |-> key]

LedgerError(kind, info, data) == [kind |-> kind, info |-> info, data |-> data]

MissingCommandInfo(field) == LedgerError("MissingCommandInfo", field, <<>>)

NoErrorOrResult == LedgerError("NoErrorOrResult", "", <<>>)

ApduErr == LedgerError("Apdu", "ResponseTooShort", <<>>)

StoreErr == LedgerError("Store", "", <<>>)

Interrupted == LedgerError("Interrupted", "", <<>>)

UnexpectedResult(data) == LedgerError("UnexpectedResult", "", data)

---------------------------------------------------------------------------
(* Session state *)

New == [tag |-> "New", command |-> None, store |-> None, response |-> None]

Running(command, store) ==
    [tag |-> "Running", command |-> Some(command), store |-> store, response |-> None]

Finished(response) ==
    [tag |-> "Finished", command |-> None, store |-> None, response |-> Some(response)]

IsNew(st) == st.tag = "New"

IsRunning(st) == st.tag = "Running"

IsFinished(st) == st.tag = "Finished"

---------------------------------------------------------------------------
(* What a call returns: Result<_, LedgerError>, tagged with the call *)

RetOk(op, transmit, response) ==
    [op |-> op, ok |-> TRUE, transmit |-> transmit, response |-> response, error |-> None]

RetErr(op, e) ==
    [op |-> op, ok |-> FALSE, transmit |-> None, response |-> None, error |-> Some(e)]

Outcome(st, r) == [state |-> st, ret |-> r]

---------------------------------------------------------------------------
(* The externally-typed request C and its conversion C: TryInto<LedgerCommand> *)

Request(kind, network, path, display) ==
    [kind |-> kind, network |-> network, path |-> path, display |-> display]

Requests ==
    {Request("OpenApp", n, None, FALSE) : n \in {None} \cup {Some(x) : x \in Networks}}
        \cup {Request("GetMasterFingerprint", None, None, FALSE)}
        \cup {Request("GetXpub", None, p, d) :
                 p \in {None} \cup {Some(x) : x \in Paths}, d \in BOOLEAN}

try_into(request) ==
    CASE request.kind = "OpenApp" ->
           IF IsSome(request.network)
           THEN [ok |-> TRUE, command |-> Some(OpenApp(Unwrap(request.network))), error |-> None]
           ELSE [ok |-> FALSE, command |-> None, error |-> Some(MissingCommandInfo("network"))]
      [] request.kind = "GetXpub" ->
           IF IsSome(request.path)
           THEN [ok |-> TRUE,
                 command |-> Some(GetXpub(Unwrap(request.path), request.display)),
                 error |-> None]
           ELSE [ok |-> FALSE, command |-> None, error |-> Some(MissingCommandInfo("path"))]
      [] OTHER -> [ok |-> TRUE, command |-> Some(GetMasterFingerprint), error |-> None]

---------------------------------------------------------------------------
(* command: the encoders of the first frame and of the continuation frame *)

ApduCommand(ins, network, path, display, data) ==
    [ins |-> ins, network |-> network, path |-> path, display |-> display, data |-> data]

get_master_fingerprint == ApduCommand("GET_MASTER_FINGERPRINT", "-", <<>>, FALSE, <<>>)

get_extended_pubkey(path, display) == ApduCommand("GET_EXTENDED_PUBKEY", "-", path, display, <<>>)

open_app(network) == ApduCommand("OPEN_APP", network, <<>>, FALSE, <<>>)

continue_interrupted(transmit) == ApduCommand("CONTINUE_INTERRUPTED", "-", <<>>, FALSE, transmit)

---------------------------------------------------------------------------
(* store: the delegated store answering the device's client commands *)

\* a store knows a set of client commands and the reply it gives to them
DelegatedStore(known, reply) == [known |-> known, reply |-> reply]

store_execute(store, data) ==
    IF data \in store.known
    THEN [ok |-> TRUE, transmit |-> store.reply]
    ELSE [ok |-> FALSE, transmit |-> <<>>]

---------------------------------------------------------------------------
(* bitcoin::bip32: the textual form of an extended public key *)

ReplacementCharacter == 65533       \* U+FFFD

\* String::from_utf8_lossy on bytes below 0xC0: an ASCII byte is its own
\* character; a continuation byte with no lead byte before it is invalid
\* and becomes U+FFFD
from_utf8_lossy(bytes) ==
    [i \in 1..Len(bytes) |-> IF bytes[i] < 128 THEN bytes[i] ELSE ReplacementCharacter]

\* value of a base58 character, -1 for any other character
Base58Digit(c) ==
    CASE c >= 49 /\ c <= 57 -> c - 49              \* '1'..'9'
      [] c >= 65 /\ c <= 72 -> c - 65 + 9          \* 'A'..'H'
      [] c >= 74 /\ c <= 78 -> c - 74 + 17         \* 'J'..'N'
      [] c >= 80 /\ c <= 90 -> c - 80 + 22         \* 'P'..'Z'
      [] c >= 97 /\ c <= 107 -> c - 97 + 33        \* 'a'..'k'
      [] c >= 109 /\ c <= 122 -> c - 109 + 44      \* 'm'..'z'
      [] OTHER -> -1

\* Xpub::from_str: the text must be base58 of the expected length; the key
\* is what the digits decode to
Xpub_from_str(text) ==
    IF Len(text) = XpubTextLen /\ \A i \in 1..Len(text) : Base58Digit(text[i]) >= 0
    THEN [ok |-> TRUE, xpub |-> [i \in 1..Len(text) |-> Base58Digit(text[i])]]
    ELSE [ok |-> FALSE, xpub |-> <<>>]

---------------------------------------------------------------------------
(* LedgerInterpreter::start *)

\* mutant: GetXpub declares a store that answers every client command
start_match_with_store(command) ==
    CASE command.kind = "GetMasterFingerprint" ->
           [transmit |-> get_master_fingerprint, store |-> None]
      [] command.kind = "GetXpub" ->
           [transmit |-> get_extended_pubkey(command.path, command.display),
            store |-> Some(DelegatedStore(Payloads, <<>>))]
      [] command.kind = "OpenApp" ->
           [transmit |-> open_app(command.network), store |-> None]

\* the match of start: the first frame and the store of each command
start_match(command) ==
    CASE command.kind = "GetMasterFingerprint" ->
           [transmit |-> get_master_fingerprint, store |-> None]
      [] command.kind = "GetXpub" ->
           [transmit |-> get_extended_pubkey(command.path, command.display), store |-> None]
      [] command.kind = "OpenApp" ->
           [transmit |-> open_app(command.network), store |-> None]

\* mutant: a failed conversion resets the session
start_conversion_failed_resets(st, e) == Outcome(New, RetErr("start", e))

\* mutant: a failed conversion falls back to a default command
start_conversion_failed_defaults(st, e) ==
    Outcome(Running(GetMasterFingerprint, None), RetErr("start", e))

\* start when the conversion of the request failed: the ? of try_into()?
start_conversion_failed(st, e) == Outcome(st, RetErr("start", e))

\* mutant: a start on a Running session keeps the command that is running
start_command_keeps_running(st, command) ==
    LET m == start_match(command)
    IN  Outcome(IF IsRunning(st) THEN st ELSE Running(command, m.store),
                RetOk("start", Some(m.transmit), None))

\* start once the request is a domain command
start_command(st, command) ==
    LET m == start_match(command)
    IN  Outcome(Running(command, m.store), RetOk("start", Some(m.transmit), None))

start_fn(st, request) ==
    LET conv == try_into(request)
    IN  IF conv.ok
        THEN start_command(st, Unwrap(conv.command))
        ELSE start_conversion_failed(st, Unwrap(conv.error))

---------------------------------------------------------------------------
(* LedgerInterpreter::exchange *)

\* mutant: the state is taken out of self before decoding, so an early
\* return leaves the default behind
exchange_malformed_takes_state(st) == Outcome(New, RetErr("exchange", ApduErr))

\* the response cannot be decoded: the ? of ApduResponse::try_from(data)
exchange_malformed(st) == Outcome(st, RetErr("exchange", ApduErr))

\* mutant: an interruption no store can answer is ignored
exchange_interrupted_ignored(st, res) ==
    IF IsSome(st.store)
    THEN LET answer == store_execute(Unwrap(st.store), res.data)
         IN  IF answer.ok
             THEN Outcome(st, RetOk("exchange",
                                    Some(continue_interrupted(answer.transmit)), None))
             ELSE Outcome(st, RetErr("exchange", StoreErr))
    ELSE Outcome(st, RetOk("exchange", None, None))

\* status word InterruptedExecution: the store answers, or the session fails
exchange_interrupted(st, res) ==
    IF IsSome(st.store)
    THEN LET answer == store_execute(Unwrap(st.store), res.data)
         IN  IF answer.ok
             THEN Outcome(st, RetOk("exchange",
                                    Some(continue_interrupted(answer.transmit)), None))
             ELSE Outcome(st, RetErr("exchange", StoreErr))
    ELSE Outcome(st, RetErr("exchange", Interrupted))

\* mutant: the fingerprint is taken from the end of the payload
exchange_GetMasterFingerprint_last4(st, res) ==
    IF Len(res.data) < 4
    THEN Outcome(st, RetErr("exchange", UnexpectedResult(res.data)))
    ELSE Outcome(Finished(MasterFingerprint(SubSeq(res.data, Len(res.data) - 3,
                                                   Len(res.data)))),
                 RetOk("exchange", None, None))

exchange_GetMasterFingerprint(st, res) ==
    IF Len(res.data) < 4
    THEN Outcome(st, RetErr("exchange", UnexpectedResult(res.data)))
    ELSE Outcome(Finished(MasterFingerprint(SubSeq(res.data, 1, 4))),
                 RetOk("exchange", None, None))

\* mutant: the error carries the lossily decoded text, not the raw payload
exchange_GetXpub_lossy_error(st, res) ==
    LET parsed == Xpub_from_str(from_utf8_lossy(res.data))
    IN  IF parsed.ok
        THEN Outcome(Finished(Xpub(parsed.xpub)), RetOk("exchange", None, None))
        ELSE Outcome(st, RetErr("exchange", UnexpectedResult(from_utf8_lossy(res.data))))

exchange_GetXpub(st, res) ==
    LET parsed == Xpub_from_str(from_utf8_lossy(res.data))
    IN  IF parsed.ok
        THEN Outcome(Finished(Xpub(parsed.xpub)), RetOk("exchange", None, None))
        ELSE Outcome(st, RetErr("exchange", UnexpectedResult(res.data)))

\* mutant: only status word OK counts as success
exchange_OpenApp_only_OK(st, res) ==
    IF res.status_word = StatusWord_OK
    THEN Outcome(Finished(TaskDone), RetOk("exchange", None, None))
    ELSE Outcome(st, RetErr("exchange", UnexpectedResult(res.data)))

exchange_OpenApp(st, res) ==
    IF res.status_word = StatusWord_OK \/ res.status_word = StatusWord_ClaNotSupported
    THEN Outcome(Finished(TaskDone), RetOk("exchange", None, None))
    ELSE Outcome(st, RetErr("exchange", UnexpectedResult(res.data)))

\* the match on the running command
exchange_match(st, res) ==
    LET command == Unwrap(st.command)
    IN  CASE command.kind = "GetMasterFingerprint" -> exchange_GetMasterFingerprint(st, res)
          [] command.kind = "GetXpub" -> exchange_GetXpub(st, res)
          [] command.kind = "OpenApp" -> exchange_OpenApp(st, res)

\* mutant: the running command decodes the payload before the status word
\* is tested for InterruptedExecution
exchange_running_decodes_first(st, data) ==
    LET res == ApduResponse_try_from(data)
    IN  IF ~res.ok THEN exchange_malformed(st)
        ELSE LET out == exchange_match(st, res)
             IN  IF ~out.ret.ok /\ res.status_word = StatusWord_InterruptedExecution
                 THEN exchange_interrupted(st, res)
                 ELSE out

\* the body of `if let State::Running { store, command }`
exchange_running(st, data) ==
    LET res == ApduResponse_try_from(data)
    IN  IF ~res.ok THEN exchange_malformed(st)
        ELSE IF res.status_word = StatusWord_InterruptedExecution
             THEN exchange_interrupted(st, res)
             ELSE exchange_match(st, res)

\* mutant: a session that is not Running finishes with a default response
exchange_not_running_finishes(st) ==
    Outcome(Finished(TaskDone), RetOk("exchange", None, None))

\* the session is not Running: the if let does not match, Ok(None)
exchange_not_running(st) == Outcome(st, RetOk("exchange", None, None))

\* mutant: the response is decoded before the state is looked at
exchange_fn_decodes_first(st, data) ==
    IF ~ApduResponse_try_from(data).ok THEN exchange_malformed(st)
    ELSE IF IsRunning(st) THEN exchange_running(st, data) ELSE exchange_not_running(st)

exchange_fn(st, data) ==
    IF IsRunning(st) THEN exchange_running(st, data) ELSE exchange_not_running(st)

---------------------------------------------------------------------------
(* LedgerInterpreter::end *)

\* mutant: end before Finished silently defaults to TaskDone
end_fn_defaulting(st) ==
    IF IsFinished(st)
    THEN RetOk("end", None, st.response)
    ELSE RetOk("end", None, Some(TaskDone))

end_fn(st) ==
    IF IsFinished(st)
    THEN RetOk("end", None, st.response)
    ELSE RetErr("end", NoErrorOrResult)

---------------------------------------------------------------------------
(* The WebHID transport (bhwi-wasm/src/webhid.rs) *)

\* what the JsValue given as on_close_cb can be
JsValueKinds == {"function", "null", "undefined", "object"}

VendorIds == {1, 2}

ProductIds == {1, 2}

HidDevice(vendor_id, product_id, opened) ==
    [vendor_id |-> vendor_id, product_id |-> product_id, opened |-> opened]

\* the devices the user can grant to request_device
GrantedDevices == {HidDevice(1, 1, FALSE), HidDevice(2, 1, FALSE)}

\* the data of an input report event: a DataView that covers its buffer
DataView(buffer) == [buffer |-> buffer, byteLength |-> Len(buffer)]

InputReports == {DataView(<<1>>), DataView(<<2, 3>>)}

\* the bytes of the report a DataView shows
ViewBytes(data) == SubSeq(data.buffer, 1, data.byteLength)

\* a disconnect event: the ids of the device that went away, and whether it
\* is the very device this transport has open
HidConnectionEvent(vendor_id, product_id, this) ==
    [vendor_id |-> vendor_id, product_id |-> product_id, this |-> this]

DisconnectEvents ==
    {HidConnectionEvent(v, p, this) : v \in VendorIds, p \in ProductIds, this \in BOOLEAN}

\* mutant: the buffer is allocated and sent without the copy
report_vec_uncopied(data) == [i \in 1..data.byteLength |-> 0]

\* the closure of inputreport: vec![0u8; length] filled by copy_to from a
\* Uint8Array over the buffer
report_vec(data) == [i \in 1..data.byteLength |-> data.buffer[i]]

\* the channel after tx.unbounded_send(msg)
unbounded_send(queue, msg) == Append(queue, msg)

\* one poll of msg_queue.next(): the oldest message, or None once every
\* Sender is dropped, or Pending
poll_next(queue, nsenders) ==
    IF queue # <<>>
    THEN [ready |-> TRUE, value |-> Some(Head(queue)), queue |-> Tail(queue)]
    ELSE IF nsenders = 0
         THEN [ready |-> TRUE, value |-> None, queue |-> queue]
         ELSE [ready |-> FALSE, value |-> None, queue |-> queue]

\* the Senders left when get_webhid_device returns: tx is dropped, its
\* clone lives in the closure that forget() leaks
SendersAfterConstruction == 1

\* number of calls the guarded cb.call0 makes: one if the value is a function
invoke_on_close(cb) ==
    IF cb # "undefined" /\ cb # "null"
    THEN IF cb = "function" THEN 1 ELSE 0
    ELSE 0

\* mutant: only the vendor id is compared
disconnect_matches_vendor_only(ev, dev) == ev.vendor_id = dev.vendor_id

\* the test of the disconnect closure
disconnect_matches(ev, dev) ==
    ev.vendor_id = dev.vendor_id /\ ev.product_id = dev.product_id

\* no WebHidDevice yet
HidInit ==
    /\ device = None
    /\ on_close_cb = "undefined"
    /\ msg_queue = <<>>
    /\ senders = 0
    /\ readPending = FALSE
    /\ closeTasks = 0
    /\ received = <<>>
    /\ delivered = <<>>
    /\ closeCalls = 0
    /\ disconnects = 0
    /\ lastDisconnect = None
    /\ cbCalls = 0

\* get_webhid_device: granted is the device found, named as asked and
\* opened, or None on any of the early returns
get_webhid_device(cb, granted) ==
    /\ device = None
    /\ IF granted = None
       THEN UNCHANGED <<device, on_close_cb, senders>>
       ELSE /\ device' = Some([Unwrap(granted) EXCEPT !.opened = TRUE])
            /\ on_close_cb' = cb
            /\ senders' = SendersAfterConstruction
    /\ UNCHANGED <<msg_queue, readPending, closeTasks, received, delivered,
                   closeCalls, disconnects, lastDisconnect, cbCalls>>
    /\ UNCHANGED <<ledgerVars, rounds>>

\* the inputreport listener; an open device is the only one that reports
on_input_report(data) ==
    /\ IsSome(device)
    /\ Unwrap(device).opened
    /\ Len(received) < MaxReports
    /\ msg_queue' = unbounded_send(msg_queue, report_vec(data))
    /\ received' = Append(received, ViewBytes(data))
    /\ UNCHANGED <<device, on_close_cb, senders, readPending, closeTasks, delivered,
                   closeCalls, disconnects, lastDisconnect, cbCalls>>
    /\ UNCHANGED <<ledgerVars, rounds>>

\* read() is called: the future starts to wait
read ==
    /\ IsSome(device)
    /\ ~readPending
    /\ readPending' = TRUE
    /\ UNCHANGED <<device, on_close_cb, msg_queue, senders, closeTasks, received,
                   delivered, closeCalls, disconnects, lastDisconnect, cbCalls>>
    /\ UNCHANGED <<ledgerVars, rounds>>

\* the read() future is polled and completes
read_poll ==
    /\ readPending
    /\ LET polled == poll_next(msg_queue, senders)
       IN  /\ polled.ready
           /\ msg_queue' = polled.queue
           /\ delivered' = Append(delivered, polled.value)
    /\ readPending' = FALSE
    /\ UNCHANGED <<device, on_close_cb, senders, closeTasks, received,
                   closeCalls, disconnects, lastDisconnect, cbCalls>>
    /\ UNCHANGED <<ledgerVars, rounds>>

\* close(): device.close() is called and a task is spawned to await it
close ==
    /\ IsSome(device)
    /\ closeCalls < MaxCloses
    /\ closeCalls' = closeCalls + 1
    /\ closeTasks' = closeTasks + 1
    /\ UNCHANGED <<device, on_close_cb, msg_queue, senders, readPending, received,
                   delivered, disconnects, lastDisconnect, cbCalls>>
    /\ UNCHANGED <<ledgerVars, rounds>>

\* the device close completes and the spawned task runs on
close_task ==
    /\ closeTasks > 0
    /\ closeTasks' = closeTasks - 1
    /\ device' = Some([Unwrap(device) EXCEPT !.opened = FALSE])
    /\ cbCalls' = cbCalls + invoke_on_close(on_close_cb)
    /\ UNCHANGED <<on_close_cb, msg_queue, senders, readPending, received,
                   delivered, closeCalls, disconnects, lastDisconnect>>
    /\ UNCHANGED <<ledgerVars, rounds>>

\* the disconnect listener on navigator.hid
on_disconnect(ev) ==
    /\ IsSome(device)
    /\ ev.this => (ev.vendor_id = Unwrap(device).vendor_id
                       /\ ev.product_id = Unwrap(device).product_id)
    /\ disconnects < MaxDisconnects
    /\ disconnects' = disconnects + 1
    /\ lastDisconnect' = Some(ev)
    /\ cbCalls' = cbCalls + (IF disconnect_matches(ev, Unwrap(device))
                             THEN invoke_on_close(on_close_cb)
                             ELSE 0)
    /\ device' = IF ev.this
                 THEN Some([Unwrap(device) EXCEPT !.opened = FALSE])
                 ELSE device
    /\ UNCHANGED <<on_close_cb, msg_queue, senders, readPending, closeTasks,
                   received, delivered, closeCalls>>
    /\ UNCHANGED <<ledgerVars, rounds>>

---------------------------------------------------------------------------
(* The interpreter driven by an arbitrary caller *)

\* LedgerInterpreter::default()
LedgerInit ==
    /\ state = New
    /\ ret = RetOk("default", None, None)
    /\ prevOp = "default"
    /\ consumed = FALSE
    /\ startedCmd = None
    /\ decodedFor = None
    /\ overridden = FALSE

Init ==
    /\ LedgerInit
    /\ rounds = 0
    /\ HidInit

\* the three calls, on the interpreter alone
start_call(request) ==
    /\ ~consumed
    /\ LET out == start_fn(state, request)
       IN  /\ state' = out.state
           /\ ret' = out.ret
           /\ startedCmd' = IF out.ret.ok THEN try_into(request).command ELSE startedCmd
           /\ decodedFor' = IF out.ret.ok THEN None ELSE decodedFor
           /\ overridden' = (overridden \/ (out.ret.ok /\ IsRunning(state)))
    /\ prevOp' = ret.op
    /\ UNCHANGED consumed

exchange_call(data) ==
    /\ ~consumed
    /\ LET out == exchange_fn(state, data)
       IN  /\ state' = out.state
           /\ ret' = out.ret
           /\ decodedFor' = IF IsRunning(state) /\ out.ret.ok /\ out.ret.transmit = None
                            THEN state.command
                            ELSE decodedFor
    /\ prevOp' = ret.op
    /\ UNCHANGED <<consumed, startedCmd, overridden>>

end_call ==
    /\ ~consumed
    /\ ret' = end_fn(state)
    /\ consumed' = TRUE
    /\ prevOp' = ret.op
    /\ UNCHANGED <<state, startedCmd, decodedFor, overridden>>

\* the calls made by an arbitrary caller
start(request) == start_call(request) /\ UNCHANGED <<rounds, hidVars>>

exchange(data) == exchange_call(data) /\ UNCHANGED <<rounds, hidVars>>

end == end_call /\ UNCHANGED <<rounds, hidVars>>

Next ==
    \/ \E request \in Requests : start(request)
    \/ \E data \in Responses : exchange(data)
    \/ end

Spec == Init /\ [][Next]_vars

---------------------------------------------------------------------------
(* The interpreter driven by the loop of the external driver: start once,  *)
(* hand each device response to exchange while exchange returns a frame,   *)
(* stop at the first error or at the first "no further frame", then end.   *)

\* the driver holds a frame that it writes to the device
DriverHoldsFrame ==
    \/ ret.op = "start" /\ ret.ok
    \/ ret.op = "exchange" /\ ret.ok /\ IsSome(ret.transmit)

\* the driver has reached end, or has stopped at an error
DriverDone ==
    \/ ret.op = "end"
    \/ ret.op \in {"start", "exchange"} /\ ~ret.ok

driver_start ==
    /\ ret.op = "default"
    /\ \E request \in Requests : start_call(request)
    /\ UNCHANGED <<rounds, hidVars>>

driver_exchange ==
    /\ DriverHoldsFrame
    /\ rounds < MaxExchanges
    /\ \E data \in Responses : exchange_call(data)
    /\ rounds' = rounds + 1
    /\ UNCHANGED hidVars

driver_end ==
    /\ ret.op = "exchange" /\ ret.ok /\ ret.transmit = None
    /\ end_call
    /\ UNCHANGED <<rounds, hidVars>>

DriverNext == driver_start \/ driver_exchange \/ driver_end

\* the driver is a sequential program that keeps running while the device
\* answers
DriverSpec == Init /\ [][DriverNext]_vars /\ WF_vars(DriverNext)

---------------------------------------------------------------------------
(* The WebHID transport used by a page: the page calls read and close, the *)
(* browser fires input reports and disconnect events                       *)

HidNext ==
    \/ \E cb \in JsValueKinds, granted \in {None} \cup {Some(d) : d \in GrantedDevices} :
           get_webhid_device(cb, granted)
    \/ \E data \in InputReports : on_input_report(data)
    \/ read
    \/ read_poll
    \/ close
    \/ close_task
    \/ \E ev \in DisconnectEvents : on_disconnect(ev)

\* the executor polls a future that was woken, and the browser settles the
\* promise of device.close(); the page and the device owe nothing
HidSpec ==
    Init /\ [][HidNext]_vars /\ WF_vars(read_poll) /\ WF_vars(close_task)

---------------------------------------------------------------------------
(* Properties of the session state machine *)

\* the most recent call was an exchange that returned Ok(None)
ExchangeReturnedNoFrame == ret.op = "exchange" /\ ret.ok /\ ret.transmit = None

\* C1: Finished is terminal: once the session state is Finished, no call to
\* start or exchange changes it; a Finished session cannot restart.
C1_FinishedIsTerminal == [][IsFinished(state) => state' = state]_vars

\* C2: end returns the result exactly when the session is Finished; in state
\* New or Running (in particular right after start) it fails with
\* NoErrorOrResult.
C2_EndOnlyWhenFinished ==
    /\ ret.op = "end" =>
           IF IsFinished(state)
           THEN ret = RetOk("end", None, state.response)
           ELSE ret = RetErr("end", NoErrorOrResult)
    /\ \A request \in Requests :
           try_into(request).ok =>
               end_fn(start_fn(state, request).state) = RetErr("end", NoErrorOrResult)

\* C2 witness: start immediately followed by end, no exchange in between
C2_StartThenEnd ==
    /\ ret = RetErr("end", NoErrorOrResult)
    /\ prevOp = "start"
    /\ IsRunning(state)
    /\ Unwrap(state.command).kind = "GetXpub"

\* C3: an exchange that returns an error leaves the session state exactly
\* as it was: still Running, same command, same store.
C3_FailedExchangeKeepsState ==
    [][(ret'.op = "exchange" /\ ~ret'.ok) => (state' = state /\ IsRunning(state'))]_vars

\* C3 witness: a response shorter than the status word was refused and the
\* session is still Running
C3_MalformedRefused ==
    /\ ret = RetErr("exchange", ApduErr)
    /\ IsRunning(state)
    /\ state.command = startedCmd

\* C4: Running with no store, every response whose status word is
\* InterruptedExecution makes exchange fail with Interrupted, with no frame
\* and no change of state, whatever the command and the payload.
C4_InterruptedWithoutStore ==
    (IsRunning(state) /\ state.store = None) =>
        \A p \in Payloads :
            exchange_fn(state, ResponseBytes(p, SW_InterruptedExecution))
                = Outcome(state, RetErr("exchange", Interrupted))

\* C4 witness: an exchange ended in Interrupted on a Running session
C4_InterruptedSeen ==
    /\ ret = RetErr("exchange", Interrupted)
    /\ IsRunning(state)
    /\ state.store = None

\* C5 as stated: whenever exchange returns successfully with no further
\* frame, the session is Finished, in whatever state exchange was called.
C5_NoFrameMeansFinished == ExchangeReturnedNoFrame => IsFinished(state)

\* C5 amended: whenever exchange returns successfully with no further frame
\* on a session that was started, the session is Finished and end yields
\* its result.
C5_NoFrameMeansFinishedOnceStarted ==
    (ExchangeReturnedNoFrame /\ IsSome(startedCmd)) =>
        (IsFinished(state) /\ end_fn(state) = RetOk("end", None, state.response))

\* C5 witness: an exchange on a started session returned no frame
C5_NoFrameAfterStart ==
    ExchangeReturnedNoFrame /\ IsSome(startedCmd) /\ IsFinished(state)

\* the command of a Running session has this kind
RunningKind(kind) == IsRunning(state) /\ Unwrap(state.command).kind = kind

\* C6: with OpenApp running, status word OK or ClaNotSupported finishes the
\* session with TaskDone whatever the payload and returns no frame; any other
\* status word except InterruptedExecution fails with UnexpectedResult and
\* the session stays Running.
C6_OpenAppStatusWords ==
    RunningKind("OpenApp") =>
        \A p \in Payloads :
            /\ \A sw \in {SW_OK, SW_ClaNotSupported} :
                   exchange_fn(state, ResponseBytes(p, sw))
                       = Outcome(Finished(TaskDone), RetOk("exchange", None, None))
            /\ \A sw \in StatusWords \ {SW_OK, SW_ClaNotSupported, SW_InterruptedExecution} :
                   exchange_fn(state, ResponseBytes(p, sw))
                       = Outcome(state, RetErr("exchange", UnexpectedResult(p)))

\* C6 witness: an OpenApp session finished with TaskDone
C6_OpenAppDone ==
    /\ ExchangeReturnedNoFrame
    /\ state = Finished(TaskDone)
    /\ IsSome(startedCmd)
    /\ Unwrap(startedCmd).kind = "OpenApp"

\* C7: with GetMasterFingerprint running and a response that is not
\* interrupted, a payload of at least 4 bytes finishes the session with the
\* first 4 payload bytes in order (the rest ignored); a shorter payload fails
\* with UnexpectedResult carrying exactly the payload, session still Running.
C7_MasterFingerprintDecoding ==
    RunningKind("GetMasterFingerprint") =>
        \A p \in Payloads, sw \in StatusWords \ {SW_InterruptedExecution} :
            exchange_fn(state, ResponseBytes(p, sw))
                = IF Len(p) >= 4
                  THEN Outcome(Finished(MasterFingerprint(<<p[1], p[2], p[3], p[4]>>)),
                               RetOk("exchange", None, None))
                  ELSE Outcome(state, RetErr("exchange", UnexpectedResult(p)))

\* C7 witness: a GetMasterFingerprint session finished with a fingerprint
C7_FingerprintDecoded ==
    /\ ExchangeReturnedNoFrame
    /\ state = Finished(MasterFingerprint(<<170, 120, 120, 170>>))
    /\ IsSome(startedCmd)
    /\ Unwrap(startedCmd).kind = "GetMasterFingerprint"

\* C8: the session is Finished, and end yields a result, only if a start
\* succeeded and a later exchange decoded a response for that command; a
\* session never started stays New and yields no result.
C8_NoResponseBeforeStart ==
    /\ IsFinished(state) => (IsSome(startedCmd) /\ decodedFor = startedCmd)
    /\ (ret.op = "end" /\ ret.ok) => (IsSome(startedCmd) /\ decodedFor = startedCmd)
    /\ startedCmd = None => IsNew(state)

\* C8 witness: exchange and then end were called on a session never started
C8_ExchangeThenEndOnNew ==
    /\ startedCmd = None
    /\ prevOp = "exchange"
    /\ ret = RetErr("end", NoErrorOrResult)

\* C9: after the first successful start the state is never New again,
\* whatever start and exchange calls follow and whether they succeed or fail.
C9_NeverBackToNew == IsSome(startedCmd) => ~IsNew(state)

\* C9 witness: a started session saw a start fail and is still not New
C9_FailedStartAfterStart ==
    /\ IsSome(startedCmd)
    /\ ret.op = "start"
    /\ ~ret.ok
    /\ ~IsNew(state)

\* C10: when the conversion of the request fails, start returns that error
\* and no frame and leaves the state unchanged; the state becomes Running
\* only in a start that returns a frame.
C10_StartConversionFailure ==
    /\ [](\A request \in Requests :
              LET conv == try_into(request)
                  out == start_fn(state, request)
              IN  IF conv.ok
                  THEN IsRunning(out.state) /\ out.ret.ok /\ IsSome(out.ret.transmit)
                  ELSE out = Outcome(state, RetErr("start", Unwrap(conv.error))))
    /\ [][/\ (ret'.op = "start" /\ ~ret'.ok) =>
                 (state' = state /\ ret'.transmit = None)
          /\ (state' # state /\ IsRunning(state')) =>
                 (ret'.op = "start" /\ ret'.ok /\ IsSome(ret'.transmit))
         ]_vars

\* C10 witness: a failed start on a New session followed by end
C10_FailedStartThenEnd ==
    /\ IsNew(state)
    /\ prevOp = "start"
    /\ ret = RetErr("end", NoErrorOrResult)

\* the status words that signal a failure for a command of this kind
FailureStatusWords(kind) ==
    StatusWords \ ({SW_OK, SW_InterruptedExecution}
                       \cup (IF kind = "OpenApp" THEN {SW_ClaNotSupported} ELSE {}))

\* C13: a session reaches Finished only on a status word that signals
\* success: a response that is not interrupted and carries a failure status
\* word never moves the session to Finished, whatever its payload.
C13_FinishedOnlyOnSuccessStatus ==
    IsRunning(state) =>
        \A p \in Payloads, sw \in FailureStatusWords(Unwrap(state.command).kind) :
            ~IsFinished(exchange_fn(state, ResponseBytes(p, sw)).state)

\* C14: every command runs with no delegated store, so exchange never
\* returns a continuation frame: a successful exchange returns no frame and
\* every InterruptedExecution response ends in the Interrupted error.
C14_NoStoreNoContinuation ==
    /\ IsRunning(state) => state.store = None
    /\ (ret.op = "exchange" /\ ret.ok) => ret.transmit = None
    /\ IsRunning(state) =>
           \A data \in Responses :
               LET out == exchange_fn(state, data)
                   res == ApduResponse_try_from(data)
               IN  /\ out.ret.transmit = None
                   /\ (res.ok /\ res.status_word.code = SW_InterruptedExecution) =>
                          out.ret = RetErr("exchange", Interrupted)

\* C14 witness: a GetXpub session, running with no store, was interrupted
C14_XpubInterrupted ==
    /\ RunningKind("GetXpub")
    /\ state.store = None
    /\ ret.op = "exchange"
    /\ ret.error = Some(Interrupted)

\* C15: with GetXpub running and a response that is not interrupted, a
\* payload that does not parse as an extended public key fails with
\* UnexpectedResult carrying the raw payload, session still Running; one that
\* parses finishes the session with that key and returns no frame.
C15_XpubDecoding ==
    RunningKind("GetXpub") =>
        \A p \in Payloads, sw \in StatusWords \ {SW_InterruptedExecution} :
            LET parsed == Xpub_from_str(from_utf8_lossy(p))
            IN  exchange_fn(state, ResponseBytes(p, sw))
                    = IF parsed.ok
                      THEN Outcome(Finished(Xpub(parsed.xpub)), RetOk("exchange", None, None))
                      ELSE Outcome(state, RetErr("exchange", UnexpectedResult(p)))

\* C15 witness: a GetXpub response that does not parse was refused with its
\* raw bytes, which are not valid UTF-8
C15_XpubRefusedRaw ==
    /\ RunningKind("GetXpub")
    /\ ret = RetErr("exchange", UnexpectedResult(<<120, 170, 120>>))

\* the variant of the response that belongs to a command
ResponseVariant(command) ==
    CASE command.kind = "OpenApp" -> "TaskDone"
      [] command.kind = "GetMasterFingerprint" -> "MasterFingerprint"
      [] command.kind = "GetXpub" -> "Xpub"

\* C16: the result of a Finished session has the variant of the command most
\* recently started, also when that start came while another command was
\* Running.
C16_ResultVariantMatchesCommand ==
    IsFinished(state) =>
        /\ IsSome(startedCmd)
        /\ Unwrap(state.response).variant = ResponseVariant(Unwrap(startedCmd))

\* C16 witness: a session finished after a start that replaced a Running
\* command
C16_FinishedAfterOverride ==
    /\ IsFinished(state)
    /\ overridden
    /\ Unwrap(state.response).variant = "Xpub"

\* C17: exchange on a session that is not Running returns success with no
\* frame and leaves the state as it is, without decoding its argument.
C17_ExchangeWhenNotRunning ==
    ~IsRunning(state) =>
        \A data \in Responses :
            exchange_fn(state, data) = Outcome(state, RetOk("exchange", None, None))

\* C17 witness: exchange was called on a New session and returned no frame
C17_ExchangeOnNewSeen ==
    /\ ExchangeReturnedNoFrame
    /\ IsNew(state)
    /\ startedCmd = None

\* C11: the exchange terminates: driven by the loop of the driver, the
\* session reaches end or an error after finitely many exchange calls, for
\* every command and every sequence of device responses; the bound on the
\* number of rounds is never what stops it.
C11_ExchangeTerminates ==
    /\ <>DriverDone
    /\ [](rounds < MaxExchanges)
    /\ [](DriverDone \/ ENABLED DriverNext)

\* C11 witness: the device answered InterruptedExecution and the driver
\* stopped at the Interrupted error after one exchange
C11_StoppedAtInterrupted ==
    /\ DriverDone
    /\ rounds = 1
    /\ ret = RetErr("exchange", Interrupted)

---------------------------------------------------------------------------
(* Properties of the WebHID transport *)

\* the device is closed or has disconnected
SessionOver == IsSome(device) /\ ~Unwrap(device).opened

\* the values the read() calls returned, without the Some around them
RECURSIVE Unwrapped(_)
Unwrapped(options) ==
    IF options = <<>> THEN <<>>
    ELSE (IF IsSome(Head(options)) THEN <<Unwrap(Head(options))>> ELSE <<>>)
             \o Unwrapped(Tail(options))

\* C12: once the device is closed or has disconnected and every queued
\* input report has been read, a pending read eventually completes (with
\* end-of-session) instead of waiting forever.
C12_ReadEndsAfterClose ==
    (SessionOver /\ msg_queue = <<>> /\ readPending) ~> ~readPending

\* C18: input reports are delivered in FIFO order, each exactly once: what
\* read returned, followed by what is still queued, is what the device sent;
\* so the values read are a prefix of the reports received, and reports that
\* arrive while no read is pending are kept.
C18_ReportsInOrderExactlyOnce ==
    /\ \A i \in 1..Len(delivered) : IsSome(delivered[i])
    /\ Unwrapped(delivered) \o msg_queue = received

\* C18 witness: two different reports arrived while no read was pending (the
\* second after the first was read, or both queued) and were read in order
C18_TwoReportsRead ==
    /\ Len(delivered) = 2
    /\ Unwrapped(delivered) = <<<<2, 3>>, <<1>>>>
    /\ received = <<<<2, 3>>, <<1>>>>
    /\ msg_queue = <<>>

\* C19: with a function as callback, every close call leads to the
\* completion of the device close, which invokes the callback once; a
\* disconnect event invokes it exactly when the device that went away has the
\* vendor id and the product id of this device; a callback that is null,
\* undefined or not a function is never invoked.
C19_DeviceUnavailableNotification ==
    /\ (closeTasks > 0) ~> (closeTasks = 0)
    /\ [][closeTasks' < closeTasks =>
              cbCalls' = cbCalls + (IF on_close_cb = "function" THEN 1 ELSE 0)]_vars
    /\ [][disconnects' # disconnects =>
              LET ev == Unwrap(lastDisconnect')
                  dev == Unwrap(device)
                  same == ev.vendor_id = dev.vendor_id /\ ev.product_id = dev.product_id
              IN  cbCalls' = cbCalls + (IF same /\ on_close_cb = "function" THEN 1 ELSE 0)]_vars
    /\ [](on_close_cb # "function" => cbCalls = 0)
    /\ [](cbCalls <= closeCalls - closeTasks + disconnects)

\* C19 witness: the callback ran once for a completed close and once for the
\* disconnect of a device with the ids of this one
C19_NotifiedTwice ==
    /\ on_close_cb = "function"
    /\ closeCalls = 1
    /\ closeTasks = 0
    /\ disconnects = 1
    /\ cbCalls = 2

===========================================================================
